---- MODULE Spec2Model ----
(***************************************************************************)
(* Booking conflict resolution and client-identity reconciliation of the   *)
(* massage-cabinet server (server/storage.ts: storage layer and routes;    *)
(* shared schema: tables).                                                 *)
(*                                                                         *)
(* Conventions.  A nullable integer column holds NULL or an integer.  A    *)
(* field left out of an edit request body is ABSENT (JavaScript            *)
(* undefined); a bookingType left out is "".  A null, an undefined and an  *)
(* empty userPhone are all falsy in every place the code reads them and    *)
(* all normalise to '', so the model writes "" for the three.  Dates are   *)
(* ISO strings in the code; the model                                      *)
(* uses the day's ordinal, which keeps their equality and their order.     *)
(* Strings are TLA+ strings, read character by character with SubSeq.      *)
(***************************************************************************)
EXTENDS Integers, Sequences, FiniteSets, TLC

VARIABLES
    bookings,       \* table bookings: a set of rows, each with a unique id
    cancellations,  \* table cancellations: rows in insertion (cancelledAt) order
    nextId,         \* the next booking id the database hands out
    procs,          \* in-flight requests of the interleaved specifications
    last            \* the last request served and its response (logging specifications)

vars == <<bookings, cancellations, nextId, procs, last>>

-----------------------------------------------------------------------------
(* Bounds of the model *)

\* booking ids the database hands out in one behaviour
MaxId == 2

\* requests in flight at once in the interleaved specifications
NumProcs == 2

-----------------------------------------------------------------------------
(* Program constants *)

NULL == -1
ABSENT == -2

DailyStart == 20
DailyDuration == 24
DailyPrice == 3200
HourlyRate == 200
TrunkLength == 11

Ok == "Ok"
RoomOccupiedWholeDay == "RoomOccupiedWholeDay"
RoomReservedForDay == "RoomReservedForDay"
TimeSlotOverlap == "TimeSlotOverlap"
ClientBookedElsewhere == "ClientBookedElsewhere"
ClientTimeConflict == "ClientTimeConflict"
NotFound == "NotFound"

\* table users: the registered accounts (phones stored normalised by registration)
Users == { [id |-> "u1", name |-> "Ann", phone |-> "9123456789"] }

-----------------------------------------------------------------------------
(* Strings *)

Digits == {"0", "1", "2", "3", "4", "5", "6", "7", "8", "9"}
Whitespace == {" "}

CharAt(s, i) == SubSeq(s, i, i)

RECURSIVE StripNonDigits(_)
\* phone.replace(/[^0-9]/g, '')
StripNonDigits(s) ==
    IF Len(s) = 0 THEN ""
    ELSE LET c == CharAt(s, 1)
             rest == StripNonDigits(SubSeq(s, 2, Len(s)))
         IN IF c \in Digits THEN c \o rest ELSE rest

normalizePhone_DropAnyTrunk(phone) ==
    LET digits == StripNonDigits(phone)
    IN IF Len(digits) > 0 /\ CharAt(digits, 1) \in {"7", "8"}
         THEN SubSeq(digits, 2, Len(digits))
         ELSE digits

\* function normalizePhone (null, undefined and '' all give '')
normalizePhone(phone) ==
    IF phone = "" THEN ""
    ELSE LET digits == StripNonDigits(phone)
         IN IF Len(digits) = TrunkLength /\ CharAt(digits, 1) = "7"
                THEN SubSeq(digits, 2, Len(digits))
            ELSE IF Len(digits) = TrunkLength /\ CharAt(digits, 1) = "8"
                THEN SubSeq(digits, 2, Len(digits))
            ELSE digits

RECURSIVE TrimStart(_)
TrimStart(s) ==
    IF Len(s) = 0 THEN ""
    ELSE IF CharAt(s, 1) \in Whitespace THEN TrimStart(SubSeq(s, 2, Len(s)))
    ELSE s

RECURSIVE TrimEnd(_)
TrimEnd(s) ==
    IF Len(s) = 0 THEN ""
    ELSE IF CharAt(s, Len(s)) \in Whitespace THEN TrimEnd(SubSeq(s, 1, Len(s) - 1))
    ELSE s

\* String.prototype.trim
Trim(s) == TrimEnd(TrimStart(s))

LowerChar(c) ==
    CASE c = "A" -> "a"
      [] c = "B" -> "b"
      [] c = "N" -> "n"
      [] c = "O" -> "o"
      [] OTHER -> c

RECURSIVE ToLowerCase(_)
\* String.prototype.toLowerCase, on the letters the model's names use
ToLowerCase(s) ==
    IF Len(s) = 0 THEN ""
    ELSE LowerChar(CharAt(s, 1)) \o ToLowerCase(SubSeq(s, 2, Len(s)))

-----------------------------------------------------------------------------
(* Storage layer (DatabaseStorage) *)

\* x || 0 on a nullable integer
Num(x) == IF x = NULL THEN 0 ELSE x

getUserByPhone(phone) == { u \in Users : u.phone = phone }

getBookingsByRoom(bks, roomNumber, date) ==
    { b \in bks : b.roomNumber = roomNumber /\ b.date = date }

getBookingsByDate(bks, date) == { b \in bks : b.date = date }

getBooking_First(bks, id) == IF bks = {} THEN {} ELSE { CHOOSE b \in bks : TRUE }

getBooking(bks, id) == { b \in bks : b.id = id }

deleteBooking_All(bks, id) == {}

deleteBooking(bks, id) == { b \in bks : b.id # id }

createBooking(bks, data, id) ==
    bks \cup { [id |-> id,
                roomNumber |-> data.roomNumber,
                userId |-> data.userId,
                userName |-> data.userName,
                userPhone |-> data.userPhone,
                date |-> data.date,
                startHour |-> data.startHour,
                duration |-> data.duration,
                bookingType |-> data.bookingType,
                price |-> data.price] }

updateBookingClient_IdOnly(bks, id, userId, userName, userPhone) ==
    { IF b.id = id THEN [b EXCEPT !.userId = userId] ELSE b : b \in bks }

updateBookingClient(bks, id, userId, userName, userPhone) ==
    { IF b.id = id
        THEN [b EXCEPT !.userId = userId, !.userName = userName, !.userPhone = userPhone]
        ELSE b : b \in bks }

updateBookingDetails_AllRows(bks, id, roomNumber, date, startHour, duration, bookingType, price) ==
    { [b EXCEPT !.roomNumber = roomNumber, !.date = date,
                !.startHour = startHour, !.duration = duration,
                !.bookingType = bookingType, !.price = price] : b \in bks }

updateBookingDetails_Restores(bks, id, roomNumber, date, startHour, duration, bookingType, price) ==
    { IF b.id = id
        THEN [b EXCEPT !.roomNumber = roomNumber, !.date = date,
                       !.startHour = startHour, !.duration = duration,
                       !.bookingType = bookingType, !.price = price]
        ELSE b : b \in bks }
      \cup IF \E b \in bks : b.id = id
             THEN {}
             ELSE { [id |-> id, roomNumber |-> roomNumber, date |-> date,
                     bookingType |-> bookingType, startHour |-> startHour,
                     duration |-> duration, price |-> price,
                     userId |-> "", userName |-> "", userPhone |-> ""] }

updateBookingDetails(bks, id, roomNumber, date, startHour, duration, bookingType, price) ==
    { IF b.id = id
        THEN [b EXCEPT !.roomNumber = roomNumber, !.date = date, !.startHour = startHour,
                       !.duration = duration, !.bookingType = bookingType, !.price = price]
        ELSE b : b \in bks }

createCancellation_KeepsLatest(cs, booking) ==
    << [userId |-> booking.userId, userName |-> booking.userName,
        userPhone |-> booking.userPhone, roomNumber |-> booking.roomNumber,
        date |-> booking.date, bookingType |-> booking.bookingType,
        price |-> booking.price] >>

createCancellation(cs, booking) ==
    Append(cs, [userId |-> booking.userId,
                userName |-> booking.userName,
                userPhone |-> booking.userPhone,
                roomNumber |-> booking.roomNumber,
                date |-> booking.date,
                bookingType |-> booking.bookingType,
                price |-> booking.price])

updateCancellationClient(cs, i, userId, userName, userPhone) ==
    [cs EXCEPT ![i] = [@ EXCEPT !.userId = userId, !.userName = userName,
                                !.userPhone = userPhone]]

-----------------------------------------------------------------------------
(* POST /api/bookings *)

\* phone normalisation and re-attribution to the registered user of that phone
CreateNormalize_KeepCaller(data) ==
    [data EXCEPT !.userPhone = IF data.userPhone # "" THEN normalizePhone(data.userPhone)
                               ELSE data.userPhone]

CreateNormalize(data) ==
    LET phone == IF data.userPhone # "" THEN normalizePhone(data.userPhone)
                 ELSE data.userPhone
        d1 == [data EXCEPT !.userPhone = phone]
        found == IF phone # "" THEN getUserByPhone(phone) ELSE {}
    IN IF found # {}
         THEN LET existingUser == CHOOSE u \in found : TRUE
              IN [d1 EXCEPT !.userId = existingUser.id,
                            !.userName = existingUser.name,
                            !.userPhone = normalizePhone(existingUser.phone)]
         ELSE d1

Overlaps_Closed(ns, ne, b) ==
    ns <= Num(b.startHour) + Num(b.duration) /\ ne >= Num(b.startHour)

\* newStart < bEnd && newEnd > bStart, with the || 0 defaults of the stored row
Overlaps(ns, ne, b) ==
    LET bStart == Num(b.startHour)
        bEnd == bStart + Num(b.duration)
    IN ns < bEnd /\ ne > bStart

CreateRoomCheck_NoOverlap(data, existingBookings) ==
    IF data.bookingType = "daily"
      THEN IF existingBookings # {} THEN RoomOccupiedWholeDay ELSE Ok
      ELSE IF \E b \in existingBookings : b.bookingType = "daily"
             THEN RoomReservedForDay
             ELSE Ok

CreateRoomCheck_NoExclusivity(data, existingBookings) ==
    IF data.bookingType = "daily"
      THEN Ok
      ELSE LET newStart == Num(data.startHour)
               newEnd == newStart + Num(data.duration)
           IN IF \E b \in existingBookings : Overlaps(newStart, newEnd, b)
                THEN TimeSlotOverlap
                ELSE Ok

\* the room/date rules of create, on the rows of getBookingsByRoom
CreateRoomCheck(data, existingBookings) ==
    IF data.bookingType = "daily"
      THEN IF existingBookings # {} THEN RoomOccupiedWholeDay ELSE Ok
      ELSE IF \E b \in existingBookings : b.bookingType = "daily"
             THEN RoomReservedForDay
             ELSE LET newStart == Num(data.startHour)
                      newEnd == newStart + Num(data.duration)
                  IN IF \E b \in existingBookings : Overlaps(newStart, newEnd, b)
                       THEN TimeSlotOverlap
                       ELSE Ok

CreateClientCheck_UserIdOnly(data, allDateBookings) ==
    LET userBookings == { b \in allDateBookings : b.userId = data.userId }
    IN IF data.bookingType = "daily"
         THEN IF \E b \in userBookings : b.roomNumber # data.roomNumber
                THEN ClientBookedElsewhere
                ELSE Ok
         ELSE IF \E b \in userBookings :
                    /\ b.roomNumber # data.roomNumber
                    /\ (b.bookingType = "daily"
                          \/ Overlaps(Num(data.startHour),
                                      Num(data.startHour) + Num(data.duration), b))
                THEN ClientTimeConflict
                ELSE Ok

CreateClientCheck_Skipped(data, allDateBookings) == Ok

\* the cross-room client rule of create, on the rows of getBookingsByDate
CreateClientCheck(data, allDateBookings) ==
    LET userBookings ==
            { b \in allDateBookings :
                \/ b.userId = data.userId
                \/ (data.userPhone # "" /\ b.userPhone = data.userPhone) }
    IN IF userBookings = {} THEN Ok
       ELSE IF data.bookingType = "daily"
         THEN IF \E b \in userBookings : b.roomNumber # data.roomNumber
                THEN ClientBookedElsewhere
                ELSE Ok
         ELSE LET newStart == Num(data.startHour)
                  newEnd == newStart + Num(data.duration)
              IN IF \E b \in userBookings :
                        /\ b.roomNumber # data.roomNumber
                        /\ (b.bookingType = "daily" \/ Overlaps(newStart, newEnd, b))
                   THEN ClientTimeConflict
                   ELSE Ok

\* the response of create on the tables as they stand: the first failing rule
CreateReason(data, bks) ==
    LET r == CreateRoomCheck(data, getBookingsByRoom(bks, data.roomNumber, data.date))
    IN IF r # Ok THEN r
       ELSE CreateClientCheck(data, getBookingsByDate(bks, data.date))

CreateWrite_Always(data, reason, bks, id) == createBooking(bks, data, id)

\* storage.createBooking(data) is reached only when no rule returned
CreateWrite(data, reason, bks, id) ==
    IF reason = Ok THEN createBooking(bks, data, id) ELSE bks

NoLast == [op |-> "none"]

\* the handler of POST /api/bookings, served while fewer than maxId ids are given out
CreateWithin(raw, log, maxId) ==
    /\ nextId <= maxId
    /\ LET data == CreateNormalize(raw)
           reason == CreateReason(data, bookings)
       IN /\ bookings' = CreateWrite(data, reason, bookings, nextId)
          /\ nextId' = IF reason = Ok THEN nextId + 1 ELSE nextId
          /\ last' = IF log
                       THEN [op |-> "create", req |-> raw, reason |-> reason,
                             id |-> nextId]
                       ELSE NoLast
    /\ UNCHANGED <<cancellations, procs>>

Create(raw, log) == CreateWithin(raw, log, MaxId)

-----------------------------------------------------------------------------
(* DELETE /api/bookings/:id *)

CancelSnapshot_Twice(bks, cs, id) ==
    LET found == getBooking(bks, id)
    IN IF found # {}
         THEN createCancellation(createCancellation(cs, CHOOSE b \in found : TRUE),
                                 CHOOSE b \in found : TRUE)
         ELSE cs

\* if (booking) createCancellation({...booking's attribution, room, date, type, price})
CancelSnapshot(bks, cs, id) ==
    LET found == getBooking(bks, id)
    IN IF found # {} THEN createCancellation(cs, CHOOSE b \in found : TRUE) ELSE cs

Cancel(id, log) ==
    /\ cancellations' = CancelSnapshot(bookings, cancellations, id)
    /\ bookings' = deleteBooking(bookings, id)
    /\ last' = IF log
                 THEN [op |-> "cancel", id |-> id, reason |-> Ok]
                 ELSE NoLast
    /\ UNCHANGED <<nextId, procs>>

-----------------------------------------------------------------------------
(* PUT /api/bookings/:id/edit *)

\* x || stored, for the numeric fields read with ||
OrStored_AlwaysStored(x, stored) == stored

OrStored(x, stored) == IF x = ABSENT \/ x = 0 THEN stored ELSE x

\* bookingType || stored: a type left out of the body is written "" here
TypeOrStored(x, stored) == IF x = "" THEN stored ELSE x

\* x !== undefined ? x : stored
DefinedOrStored(x, stored) == IF x # ABSENT THEN x ELSE stored

EditResolve_KeepPrice(booking, body) ==
    LET newType == TypeOrStored(body.bookingType, booking.bookingType)
        newStart == DefinedOrStored(body.startHour, booking.startHour)
        newDuration == DefinedOrStored(body.duration, booking.duration)
    IN [roomNumber |-> OrStored(body.roomNumber, booking.roomNumber),
        date |-> OrStored(body.date, booking.date),
        bookingType |-> newType,
        startHour |-> IF newType = "daily" THEN DailyStart ELSE newStart,
        duration |-> IF newType = "daily" THEN DailyDuration ELSE newDuration,
        price |-> IF newType = "daily" THEN DailyPrice
                  ELSE IF body.duration = ABSENT THEN booking.price
                  ELSE Num(newDuration) * HourlyRate]

\* newRoom, newDate, newType, newStart, newDuration, newPrice
EditResolve(booking, body) ==
    LET newType == TypeOrStored(body.bookingType, booking.bookingType)
        newStart == DefinedOrStored(body.startHour, booking.startHour)
        newDuration == DefinedOrStored(body.duration, booking.duration)
    IN [roomNumber |-> OrStored(body.roomNumber, booking.roomNumber),
        date |-> OrStored(body.date, booking.date),
        bookingType |-> newType,
        startHour |-> IF newType = "daily" THEN DailyStart ELSE newStart,
        duration |-> IF newType = "daily" THEN DailyDuration ELSE newDuration,
        price |-> IF newType = "daily" THEN DailyPrice
                  ELSE Num(newDuration) * HourlyRate]

EditRoomCheck_NoOverlap(new, otherBookings) ==
    IF new.bookingType = "daily"
      THEN IF otherBookings # {} THEN RoomOccupiedWholeDay ELSE Ok
      ELSE IF \E b \in otherBookings : b.bookingType = "daily"
             THEN RoomReservedForDay
             ELSE Ok

\* the room/date rules of edit, on the rows of getBookingsByRoom other than the edited one
EditRoomCheck_OverlapFirst(new, otherBookings) ==
    IF new.bookingType = "daily"
      THEN IF otherBookings # {} THEN RoomOccupiedWholeDay ELSE Ok
      ELSE IF \E b \in otherBookings :
                 Overlaps(Num(new.startHour), Num(new.startHour) + Num(new.duration), b)
             THEN TimeSlotOverlap
             ELSE IF \E b \in otherBookings : b.bookingType = "daily"
                    THEN RoomReservedForDay
                    ELSE Ok

EditRoomCheck(new, otherBookings) ==
    IF new.bookingType = "daily"
      THEN IF otherBookings # {} THEN RoomOccupiedWholeDay ELSE Ok
      ELSE IF \E b \in otherBookings : b.bookingType = "daily"
             THEN RoomReservedForDay
             ELSE LET ns == Num(new.startHour)
                      ne == ns + Num(new.duration)
                  IN IF \E b \in otherBookings : Overlaps(ns, ne, b)
                       THEN TimeSlotOverlap
                       ELSE Ok

EditClientCheck_NoOverlap(booking, new, allDateBookings) ==
    LET userBookings ==
            { b \in allDateBookings :
                /\ b.id # booking.id
                /\ \/ b.userId = booking.userId
                   \/ (booking.userPhone # "" /\ b.userPhone = booking.userPhone) }
    IN IF new.bookingType = "daily"
         THEN IF \E b \in userBookings : b.roomNumber # new.roomNumber
                THEN ClientBookedElsewhere
                ELSE Ok
         ELSE IF \E b \in userBookings :
                    b.roomNumber # new.roomNumber /\ b.bookingType = "daily"
                THEN ClientTimeConflict
                ELSE Ok

\* the cross-room client rule of edit, on the rows of getBookingsByDate
EditClientCheck(booking, new, allDateBookings) ==
    LET userBookings ==
            { b \in allDateBookings :
                /\ b.id # booking.id
                /\ \/ b.userId = booking.userId
                   \/ (booking.userPhone # "" /\ b.userPhone = booking.userPhone) }
    IN IF userBookings = {} THEN Ok
       ELSE IF new.bookingType = "daily"
         THEN IF \E b \in userBookings : b.roomNumber # new.roomNumber
                THEN ClientBookedElsewhere
                ELSE Ok
         ELSE LET ns == Num(new.startHour)
                  ne == ns + Num(new.duration)
              IN IF \E b \in userBookings :
                        /\ b.roomNumber # new.roomNumber
                        /\ (b.bookingType = "daily" \/ Overlaps(ns, ne, b))
                   THEN ClientTimeConflict
                   ELSE Ok

EditReason_SelfIncluded(booking, new, bks) ==
    LET r == EditRoomCheck(new, getBookingsByRoom(bks, new.roomNumber, new.date))
    IN IF r # Ok THEN r
       ELSE EditClientCheck([booking EXCEPT !.id = 0], new,
                            getBookingsByDate(bks, new.date))

EditReason_ClientFirst(booking, new, bks) ==
    LET otherBookings ==
            { b \in getBookingsByRoom(bks, new.roomNumber, new.date) : b.id # booking.id }
        r == EditClientCheck(booking, new, getBookingsByDate(bks, new.date))
    IN IF r # Ok THEN r ELSE EditRoomCheck(new, otherBookings)

\* the response of edit for a stored booking on the tables as they stand
EditReason(booking, new, bks) ==
    LET otherBookings ==
            { b \in getBookingsByRoom(bks, new.roomNumber, new.date) : b.id # booking.id }
        r == EditRoomCheck(new, otherBookings)
    IN IF r # Ok THEN r
       ELSE EditClientCheck(booking, new, getBookingsByDate(bks, new.date))

\* storage.updateBookingDetails(...) is reached only when no rule returned
EditWrite(id, new, reason, bks) ==
    IF reason = Ok
      THEN updateBookingDetails(bks, id, new.roomNumber, new.date, new.startHour,
                                new.duration, new.bookingType, new.price)
      ELSE bks

Edit(id, body, log) ==
    LET found == getBooking(bookings, id)
    IN /\ IF found = {}
            THEN /\ bookings' = bookings
                 /\ last' = IF log
                              THEN [op |-> "edit", id |-> id, req |-> body,
                                    reason |-> NotFound]
                              ELSE NoLast
            ELSE LET booking == CHOOSE b \in found : TRUE
                     new == EditResolve(booking, body)
                     reason == EditReason(booking, new, bookings)
                 IN /\ bookings' = EditWrite(id, new, reason, bookings)
                    /\ last' = IF log
                                 THEN [op |-> "edit", id |-> id, req |-> body,
                                       before |-> booking, reason |-> reason]
                                 ELSE NoLast
       /\ UNCHANGED <<cancellations, nextId, procs>>

-----------------------------------------------------------------------------
(* POST /api/admin/merge-clients *)

MergeBookings_Checked(bks, sourceUserId, targetUserId, targetUserName, phone) ==
    { IF /\ b.userId = sourceUserId
         /\ ~\E o \in bks :
                /\ o.userId = targetUserId /\ o.date = b.date
                /\ o.roomNumber # b.roomNumber
                /\ (o.bookingType = "daily" \/ b.bookingType = "daily"
                      \/ Overlaps(Num(b.startHour), Num(b.startHour) + Num(b.duration), o))
        THEN [b EXCEPT !.userId = targetUserId, !.userName = targetUserName,
                       !.userPhone = phone]
        ELSE b : b \in bks }

\* for (const b of allBookings) if (b.userId === sourceUserId) updateBookingClient(...)
MergeBookings(bks, sourceUserId, targetUserId, targetUserName, phone) ==
    { IF b.userId = sourceUserId
        THEN [b EXCEPT !.userId = targetUserId, !.userName = targetUserName,
                       !.userPhone = phone]
        ELSE b : b \in bks }

MergeCancellations_Skipped(cs, sourceUserId, targetUserId, targetUserName, phone) == cs

\* for (const c of allCancellations) if (c.userId === sourceUserId) updateCancellationClient(...)
MergeCancellations(cs, sourceUserId, targetUserId, targetUserName, phone) ==
    [i \in DOMAIN cs |->
        IF cs[i].userId = sourceUserId
          THEN [cs[i] EXCEPT !.userId = targetUserId, !.userName = targetUserName,
                             !.userPhone = phone]
          ELSE cs[i]]

MergeCount(bks, cs, sourceUserId) ==
    Cardinality({ b \in bks : b.userId = sourceUserId })
      + Cardinality({ i \in DOMAIN cs : cs[i].userId = sourceUserId })

Merge(m, log) ==
    /\ m.sourceUserId # "" /\ m.targetUserId # ""
    /\ LET phone == normalizePhone(m.targetUserPhone)
       IN /\ bookings' = MergeBookings(bookings, m.sourceUserId, m.targetUserId,
                                       m.targetUserName, phone)
          /\ cancellations' = MergeCancellations(cancellations, m.sourceUserId,
                                                 m.targetUserId, m.targetUserName, phone)
    /\ last' = IF log
                 THEN [op |-> "merge", req |-> m, reason |-> Ok, prevOp |-> last.op,
                       updatedCount |-> MergeCount(bookings, cancellations, m.sourceUserId)]
                 ELSE NoLast
    /\ UNCHANGED <<nextId, procs>>

-----------------------------------------------------------------------------
(* POST /api/admin/cleanup-duplicates *)

WalkInPrefix == "walk_in_"

\* userId?.startsWith('walk_in_')
IsWalkIn(userId) ==
    /\ Len(userId) >= Len(WalkInPrefix)
    /\ SubSeq(userId, 1, Len(WalkInPrefix)) = WalkInPrefix

\* (userName || '').trim().toLowerCase()
GroupKey(r) == ToLowerCase(Trim(r.userName))

\* orderBy(desc(date), startHour): ascending start hours, nulls last
InOrder(a, b) ==
    \/ a.date > b.date
    \/ /\ a.date = b.date
       /\ \/ b.startHour = NULL
          \/ (a.startHour # NULL /\ a.startHour <= b.startHour)

\* storage.getBookings(): every order of the rows the ORDER BY allows (ties are the database's)
getBookings(bks) ==
    LET n == Cardinality(bks)
    IN { s \in [1..n -> bks] :
            /\ \A i, j \in 1..n : i # j => s[i] # s[j]
            /\ \A i, j \in 1..n : i < j => InOrder(s[i], s[j]) }

\* groups[name]: the walk-in rows of that key, in the order read
GroupOf(allBookings, name) ==
    SelectSeq(allBookings, LAMBDA b : IsWalkIn(b.userId) /\ GroupKey(b) = name /\ name # "")

Canonical_First(group) == group[1]

\* withPhone || bookings[0]
Canonical(group) ==
    LET withPhone == SelectSeq(group, LAMBDA b : b.userPhone # "" /\ Trim(b.userPhone) # "")
    IN IF Len(withPhone) > 0 THEN withPhone[1] ELSE group[1]

\* the row the first loop leaves for snapshot row b, and whether it wrote
GroupRewrite(allBookings, b) ==
    LET group == GroupOf(allBookings, GroupKey(b))
    IN IF ~IsWalkIn(b.userId) \/ GroupKey(b) = "" \/ Len(group) <= 1
         THEN [row |-> b, wrote |-> FALSE]
         ELSE LET canonical == Canonical(group)
                  canonicalId == canonical.userId
                  canonicalName == Trim(canonical.userName)
                  canonicalPhone == normalizePhone(canonical.userPhone)
              IN IF /\ b.userId = canonicalId
                    /\ b.userName = canonicalName
                    /\ normalizePhone(b.userPhone) = canonicalPhone
                   THEN [row |-> b, wrote |-> FALSE]
                   ELSE [row |-> [b EXCEPT !.userId = canonicalId,
                                           !.userName = canonicalName,
                                           !.userPhone = canonicalPhone],
                         wrote |-> TRUE]

PhoneRewrite_Skipped(b, afterGroups) == [row |-> afterGroups, wrote |-> FALSE]

\* the second loop: it writes the snapshot's userId and userName with the normalised phone
PhoneRewrite(b, afterGroups) ==
    IF b.userPhone # "" /\ normalizePhone(b.userPhone) # b.userPhone
      THEN [row |-> [b EXCEPT !.userPhone = normalizePhone(b.userPhone)], wrote |-> TRUE]
      ELSE [row |-> afterGroups, wrote |-> FALSE]

DedupBookingRow(allBookings, b) ==
    PhoneRewrite(b, GroupRewrite(allBookings, b).row).row

DedupBookings_DropsDuplicates(allBookings) ==
    { DedupBookingRow(allBookings, allBookings[i]) :
        i \in { j \in DOMAIN allBookings :
                  ~GroupRewrite(allBookings, allBookings[j]).wrote } }

DedupBookings(allBookings) ==
    { DedupBookingRow(allBookings, allBookings[i]) : i \in DOMAIN allBookings }

DedupBookingCount(allBookings) ==
    Cardinality({ i \in DOMAIN allBookings : GroupRewrite(allBookings, allBookings[i]).wrote })
      + Cardinality({ i \in DOMAIN allBookings :
                        PhoneRewrite(allBookings[i], allBookings[i]).wrote })

CancelRewrite_Untouched(allBookings, c) == [row |-> c, wrote |-> FALSE]

\* the cancellation loop: rows of a key that has a booking group take that group's canonical
CancelRewrite(allBookings, c) ==
    LET name == GroupKey(c)
        group == GroupOf(allBookings, name)
    IN IF ~IsWalkIn(c.userId) \/ name = "" \/ Len(group) = 0
         THEN [row |-> c, wrote |-> FALSE]
         ELSE LET canonical == Canonical(group)
                  rewritten == [c EXCEPT !.userId = canonical.userId,
                                         !.userName = Trim(canonical.userName),
                                         !.userPhone = normalizePhone(canonical.userPhone)]
              IN IF c.userPhone # ""
                   THEN IF normalizePhone(c.userPhone) # c.userPhone
                           \/ c.userId # canonical.userId
                          THEN [row |-> rewritten, wrote |-> TRUE]
                          ELSE [row |-> c, wrote |-> FALSE]
                   ELSE [row |-> rewritten, wrote |-> TRUE]

DedupCancellations(allBookings, cs) ==
    [i \in DOMAIN cs |-> CancelRewrite(allBookings, cs[i]).row]

DedupCancellationCount(allBookings, cs) ==
    Cardinality({ i \in DOMAIN cs : CancelRewrite(allBookings, cs[i]).wrote })

Dedup(log) ==
    \E allBookings \in getBookings(bookings) :
        /\ bookings' = DedupBookings(allBookings)
        /\ cancellations' = DedupCancellations(allBookings, cancellations)
        /\ last' = IF log
                     THEN [op |-> "dedup", reason |-> Ok, prevOp |-> last.op,
                           updatedCount |-> DedupBookingCount(allBookings)
                               + DedupCancellationCount(allBookings, cancellations)]
                     ELSE NoLast
        /\ UNCHANGED <<nextId, procs>>

-----------------------------------------------------------------------------
(* Requests the model sends *)

Rooms == {1, 2}
Dates == {1, 2}
Ids == 1..MaxId

Slot(type, start, dur, price) ==
    [bookingType |-> type, startHour |-> start, duration |-> dur, price |-> price]

\* what a caller may send for type, start, duration and price: the schema asks
\* only for integers (start and duration nullable)
Slots ==
    { Slot("hourly", 20, 4, 800), Slot("hourly", 24, 2, 400),
      Slot("daily", 20, 24, 3200), Slot("daily", NULL, NULL, 3200),
      Slot("hourly", 43, 1, 1) }

Client(id, name, phone) == [userId |-> id, userName |-> name, userPhone |-> phone]

Clients ==
    { Client("walk_in_c", "Anna", "+7 (912) 345-67-89"),
      Client("walk_in_a", "Bob", ""),
      Client("walk_in_b", " bob", "89990000000") }

BookingData(room, date, slot, client) ==
    [roomNumber |-> room, date |-> date,
     bookingType |-> slot.bookingType, startHour |-> slot.startHour,
     duration |-> slot.duration, price |-> slot.price,
     userId |-> client.userId, userName |-> client.userName,
     userPhone |-> client.userPhone]

CreateInputs ==
    { BookingData(r, d, s, c) : r \in Rooms, d \in Dates, s \in Slots, c \in Clients }

NoBody ==
    [roomNumber |-> ABSENT, date |-> ABSENT, bookingType |-> "",
     startHour |-> ABSENT, duration |-> ABSENT]

\* edit bodies: nothing, one field, or start and duration together
EditBodies ==
    {NoBody}
      \cup { [NoBody EXCEPT !.roomNumber = r] : r \in Rooms }
      \cup { [NoBody EXCEPT !.date = d] : d \in Dates }
      \cup { [NoBody EXCEPT !.bookingType = t] : t \in {"hourly", "daily"} }
      \cup { [NoBody EXCEPT !.startHour = h] : h \in {20, 22, NULL} }
      \cup { [NoBody EXCEPT !.duration = n] : n \in {2, 1} }
      \cup { [NoBody EXCEPT !.startHour = 22, !.duration = 2] }

MergeInputs ==
    { [sourceUserId |-> src, targetUserId |-> c.userId,
       targetUserName |-> c.userName, targetUserPhone |-> c.userPhone] :
        src \in { "u1", "walk_in_a", "walk_in_b" },
        c \in { Client("walk_in_a", "Bob", ""), Client("u1", "Ann", "8 912 345-67-89") } }

-----------------------------------------------------------------------------
Procs == 1..NumProcs
Idle == [pc |-> "idle"]

-----------------------------------------------------------------------------
(* Sequential service: one request at a time, each served to completion *)

Init ==
    /\ bookings = {}
    /\ cancellations = <<>>
    /\ nextId = 1
    /\ procs = [p \in Procs |-> Idle]
    /\ last = NoLast

CreateStep == \E raw \in CreateInputs : Create(raw, FALSE)
EditStep == \E id \in Ids, body \in EditBodies : Edit(id, body, FALSE)
CancelStep == \E id \in Ids : Cancel(id, FALSE)
MergeStep == \E m \in MergeInputs : Merge(m, FALSE)
DedupStep == Dedup(FALSE)

Next == CreateStep \/ EditStep \/ CancelStep \/ MergeStep \/ DedupStep

Spec == Init /\ [][Next]_vars

\* create, edit and cancel only: no identity reconciliation
NextLifecycle == CreateStep \/ EditStep \/ CancelStep

SpecLifecycle == Init /\ [][NextLifecycle]_vars

-----------------------------------------------------------------------------
(* Scheduling invariants *)

\* the half-hour units of [startHour, startHour + duration)
Interval(b) ==
    IF b.startHour = NULL \/ b.duration = NULL THEN {}
    ELSE { t \in b.startHour..(b.startHour + b.duration - 1) : TRUE }

SameRoomDate(a, b) == a.roomNumber = b.roomNumber /\ a.date = b.date

\* C1: after any sequence of create, edit, cancel, merge and dedup requests served
\* one at a time, two distinct stored hourly bookings of one (roomNumber, date)
\* have disjoint intervals [startHour, startHour + duration).
C1_RoomHourlyDisjoint ==
    \A a, b \in bookings :
        (a.id # b.id /\ SameRoomDate(a, b)
            /\ a.bookingType = "hourly" /\ b.bookingType = "hourly")
        => Interval(a) \cap Interval(b) = {}

\* two hourly bookings share a room and date, one starting where the other ends
C1_Witness ==
    \E a, b \in bookings :
        /\ a.id # b.id /\ SameRoomDate(a, b)
        /\ a.bookingType = "hourly" /\ b.bookingType = "hourly"
        /\ a.startHour # NULL /\ a.duration # NULL
        /\ a.duration >= 2 /\ b.duration = 2
        /\ b.startHour = a.startHour + a.duration

\* C2: after any sequence of create, edit, cancel, merge and dedup requests served
\* one at a time, a (roomNumber, date) holds at most one daily booking, and a
\* daily booking is the only booking of its (roomNumber, date).
C2_RoomDailyExclusive ==
    \A a, b \in bookings :
        (a.id # b.id /\ SameRoomDate(a, b)) => (a.bookingType # "daily")

\* a daily booking is stored while another booking exists in another room or date
C2_Witness ==
    \E a, b \in bookings :
        /\ a.id # b.id /\ a.bookingType = "daily"
        /\ ~SameRoomDate(a, b)

\* C3: after any sequence of create, edit and cancel requests served one at a
\* time, for every userId and date a daily booking in one room coexists with no
\* booking of that userId in another room, and two hourly bookings of that
\* userId in different rooms have disjoint intervals.
C3_ClientCrossRoom ==
    \A a, b \in bookings :
        (a.id # b.id /\ a.userId = b.userId /\ a.date = b.date
            /\ a.roomNumber # b.roomNumber)
        => /\ a.bookingType # "daily"
           /\ b.bookingType # "daily"
           /\ Interval(a) \cap Interval(b) = {}

\* one userId holds two hourly bookings in different rooms on one date
C3_Witness ==
    \E a, b \in bookings :
        /\ a.id # b.id /\ a.userId = b.userId /\ a.date = b.date
        /\ a.roomNumber # b.roomNumber
        /\ a.bookingType = "hourly" /\ b.bookingType = "hourly"
        /\ Interval(a) # {} /\ Interval(b) # {}

-----------------------------------------------------------------------------
(* Sequential service with the last request and its response kept *)

LogCreateInputs ==
    { BookingData(r, d, sl, c) :
        r \in Rooms, d \in Dates,
        sl \in { Slot("hourly", 20, 4, 800), Slot("hourly", 22, 2, 1),
                 Slot("daily", NULL, NULL, 3200) },
        c \in { Client("walk_in_c", "Anna", "+7 (912) 345-67-89"),
                Client("walk_in_a", "Bob", "") } }

LogEditBodies ==
    { NoBody,
      [NoBody EXCEPT !.roomNumber = 2],
      [NoBody EXCEPT !.roomNumber = 0],
      [NoBody EXCEPT !.date = 2],
      [NoBody EXCEPT !.bookingType = "daily"],
      [NoBody EXCEPT !.bookingType = "hourly"],
      [NoBody EXCEPT !.startHour = 22],
      [NoBody EXCEPT !.duration = 2] }

LogCreateStep == \E raw \in LogCreateInputs : Create(raw, TRUE)
LogEditStep == \E id \in Ids, body \in LogEditBodies : Edit(id, body, TRUE)
LogCancelStep == \E id \in Ids : Cancel(id, TRUE)

NextLog == LogCreateStep \/ LogEditStep \/ LogCancelStep

SpecLog == Init /\ [][NextLog]_vars

-----------------------------------------------------------------------------
(* Responses and their effects *)

Rejections ==
    { RoomOccupiedWholeDay, RoomReservedForDay, TimeSlotOverlap,
      ClientBookedElsewhere, ClientTimeConflict, NotFound }

\* C5: a create or edit that is rejected (an admission reason, or NotFound for
\* edit) leaves the stored bookings and the Cancellations as they were.
C5_RejectWritesNothing ==
    [][ (last'.op \in {"create", "edit"} /\ last'.reason \in Rejections)
          => (bookings' = bookings /\ cancellations' = cancellations) ]_vars

\* an edit was just refused for a time overlap with the other stored booking
C5_Witness ==
    /\ last.op = "edit"
    /\ last.reason = TimeSlotOverlap
    /\ Cardinality(bookings) = 2

\* price(type, duration) of the booking system: 3200 a day, 200 a half hour
PriceOf(b) ==
    IF b.bookingType = "daily" THEN 3200 ELSE Num(b.duration) * 200

\* C9: an accepted edit stores the price recomputed from the resulting type and
\* duration (3200 for daily, duration * 200 for hourly, an absent duration
\* counting as 0), also when the request leaves type and duration out.
C9_EditRecomputesPrice ==
    (last.op = "edit" /\ last.reason = Ok)
      => \E b \in bookings : b.id = last.id /\ b.price = PriceOf(b)

\* an edit that left type and duration out was accepted for an hourly booking
\* whose stored price was not duration * 200
C9_Witness ==
    /\ last.op = "edit"
    /\ last.reason = Ok
    /\ last.req.bookingType = "" /\ last.req.duration = ABSENT
    /\ last.before.bookingType = "hourly"
    /\ last.before.price # PriceOf(last.before)
    /\ \E b \in bookings : b.id = last.id /\ b.price = PriceOf(b)

\* C10: cancelling a stored booking removes it and appends exactly one
\* Cancellation carrying the booking's userId, userName, userPhone, roomNumber,
\* date, bookingType and price; every other booking and Cancellation is unchanged.
C10_CancelSnapshotsAndRemoves ==
    [][ \A b \in bookings :
          (last'.op = "cancel" /\ last'.id = b.id)
            => /\ bookings' = bookings \ {b}
               /\ cancellations' =
                    cancellations \o
                      << [userId |-> b.userId, userName |-> b.userName,
                          userPhone |-> b.userPhone, roomNumber |-> b.roomNumber,
                          date |-> b.date, bookingType |-> b.bookingType,
                          price |-> b.price] >> ]_vars

\* a cancel just removed one booking of two: the other is still stored and one
\* Cancellation exists
C10_Witness ==
    /\ last.op = "cancel"
    /\ Len(cancellations) = 1
    /\ Cardinality(bookings) = 1
    /\ \A b \in bookings : b.id # last.id

-----------------------------------------------------------------------------
(* Documented encodings the create handler does not enforce *)

\* C6: every stored hourly booking has duration >= 2, startHour in [20, 43] and
\* startHour + duration <= 44 (a create or edit outside the window is refused
\* with InvalidSchedule and writes nothing).
C6_HourlyWindow ==
    \A b \in bookings :
        b.bookingType = "hourly"
        => /\ b.startHour # NULL /\ b.duration # NULL
           /\ b.duration >= 2
           /\ b.startHour >= 20 /\ b.startHour <= 43
           /\ b.startHour + b.duration <= 44

\* C7: every stored daily booking has startHour = 20 and duration = 24, whatever
\* the caller supplied.
C7_DailyFixed ==
    \A b \in bookings :
        b.bookingType = "daily" => (b.startHour = 20 /\ b.duration = 24)

\* C8: every booking persisted by an accepted create or edit has price =
\* duration * 200 when hourly and 3200 when daily, whatever price the caller sent.
C8_PriceDerived ==
    \A b \in bookings : b.price = PriceOf(b)

-----------------------------------------------------------------------------
(* POST /api/bookings, interleaved: every await of the handler is a step *)

\* the body is parsed and the phone normalised; getUserByPhone answers
CreateBegin(p, raw) ==
    /\ procs[p].pc = "idle"
    /\ procs' = [procs EXCEPT ![p] =
                    [pc |-> "readRoom", op |-> "create", data |-> CreateNormalize(raw),
                     existingBookings |-> {}, reason |-> Ok]]
    /\ UNCHANGED <<bookings, cancellations, nextId, last>>

\* getBookingsByRoom answers; the room/date rules run on its rows
CreateReadRoom(p) ==
    /\ procs[p].pc = "readRoom"
    /\ LET data == procs[p].data
           existingBookings == getBookingsByRoom(bookings, data.roomNumber, data.date)
           r == CreateRoomCheck(data, existingBookings)
       IN procs' = [procs EXCEPT ![p] =
                       [@ EXCEPT !.pc = IF r = Ok THEN "readDate" ELSE "done",
                                 !.existingBookings = existingBookings,
                                 !.reason = r]]
    /\ UNCHANGED <<bookings, cancellations, nextId, last>>

\* getBookingsByDate answers; the cross-room client rule runs on its rows
CreateReadDate(p) ==
    /\ procs[p].pc = "readDate"
    /\ LET data == procs[p].data
           r == CreateClientCheck(data, getBookingsByDate(bookings, data.date))
       IN procs' = [procs EXCEPT ![p] =
                       [@ EXCEPT !.pc = IF r = Ok THEN "write" ELSE "done",
                                 !.reason = r]]
    /\ UNCHANGED <<bookings, cancellations, nextId, last>>

\* storage.createBooking(data), then 201
CreateWriteStep(p) ==
    /\ procs[p].pc = "write"
    /\ nextId <= MaxId
    /\ bookings' = CreateWrite(procs[p].data, procs[p].reason, bookings, nextId)
    /\ nextId' = nextId + 1
    /\ procs' = [procs EXCEPT ![p] = [@ EXCEPT !.pc = "done"]]
    /\ UNCHANGED <<cancellations, last>>

RaceInputs ==
    { BookingData(r, 1, sl, c) :
        r \in Rooms,
        sl \in { Slot("hourly", 20, 4, 800), Slot("hourly", 22, 2, 400),
                 Slot("hourly", 24, 2, 400), Slot("daily", 20, 24, 3200) },
        c \in { Client("walk_in_a", "Bob", ""), Client("walk_in_b", " bob", "89990000000") } }

NextRace ==
    \E p \in Procs :
        \/ \E raw \in RaceInputs : CreateBegin(p, raw)
        \/ CreateReadRoom(p)
        \/ CreateReadDate(p)
        \/ CreateWriteStep(p)

SpecRace == Init /\ [][NextRace]_vars

\* two bookings that the room/date rules forbid side by side
RoomConflict(a, b) ==
    /\ a.id # b.id /\ SameRoomDate(a, b)
    /\ \/ a.bookingType = "daily"
       \/ b.bookingType = "daily"
       \/ Interval(a) \cap Interval(b) # {}

\* C4: two creates for one (roomNumber, date) that both read before either
\* writes can both be accepted, leaving two overlapping hourly bookings (or a
\* daily booking beside another) in that room and date; a create never writes a
\* booking in conflict with a row its own read returned, so every such conflict
\* is with a booking written after that read.
C4_ConflictOnlyWithUnread ==
    [][ \A p \in Procs :
          (procs[p].pc = "write" /\ procs'[p].pc = "done")
            => \A n \in bookings' \ bookings, b \in bookings :
                  RoomConflict(n, b) => b \notin procs[p].existingBookings ]_vars

\* both creates were answered 201 and their two hourly bookings overlap in one room and date
C4_Witness ==
    /\ \A p \in Procs : procs[p].pc = "done" /\ procs[p].reason = Ok
    /\ \E a, b \in bookings :
          /\ a.id # b.id /\ SameRoomDate(a, b)
          /\ a.bookingType = "hourly" /\ b.bookingType = "hourly"
          /\ Interval(a) \cap Interval(b) # {}

-----------------------------------------------------------------------------
(* The front desk: all five requests served one at a time, the last request
   and its response kept *)

DeskCreateInputs ==
    { BookingData(r, 1, sl, c) :
        r \in Rooms,
        sl \in { Slot("hourly", 20, 4, 800), Slot("hourly", 22, 2, 400) },
        c \in { Client("u1", "Ann", ""),
                Client("walk_in_c", "Anna", "+7 (912) 345-67-89"),
                Client("walk_in_a", "Bob", "") } }

DeskEditBodies == { NoBody, [NoBody EXCEPT !.startHour = 24] }

DeskMergeInputs ==
    { [sourceUserId |-> "walk_in_a", targetUserId |-> "u1",
       targetUserName |-> "Ann", targetUserPhone |-> "8 912 345-67-89"],
      [sourceUserId |-> "u1", targetUserId |-> "walk_in_a",
       targetUserName |-> "Bob", targetUserPhone |-> ""] }

DeskCreateStep == \E raw \in DeskCreateInputs : Create(raw, TRUE)
DeskEditStep == \E id \in Ids, body \in DeskEditBodies : Edit(id, body, TRUE)
DeskCancelStep == \E id \in Ids : Cancel(id, TRUE)
DeskMergeStep == \E m \in DeskMergeInputs : Merge(m, TRUE)
DeskDedupStep == Dedup(TRUE)

NextDesk ==
    DeskCreateStep \/ DeskEditStep \/ DeskCancelStep \/ DeskMergeStep \/ DeskDedupStep

SpecDesk == Init /\ [][NextDesk]_vars

\* C11: a cancel for an id that is not stored (never handed out, or already
\* cancelled) is answered as a success, appends no Cancellation and changes no
\* booking, so the state after a repeated cancel is the state after the first.
C11_CancelUnknownIsNoOp ==
    [][ (last'.op = "cancel" /\ \A b \in bookings : b.id # last'.id)
          => /\ last'.reason = Ok
             /\ bookings' = bookings
             /\ cancellations' = cancellations ]_vars

\* the id cancelled last has not been handed out yet: a booking is stored and
\* no Cancellation was written
C11_Witness ==
    /\ last.op = "cancel"
    /\ last.reason = Ok
    /\ last.id >= nextId
    /\ bookings # {}
    /\ cancellations = << >>

\* C15: an edit for an id that is not stored is answered NotFound and changes
\* no booking and no Cancellation.
C15_EditUnknownNotFound ==
    [][ (last'.op = "edit" /\ \A b \in bookings : b.id # last'.id)
          => /\ last'.reason = NotFound
             /\ bookings' = bookings
             /\ cancellations' = cancellations ]_vars

\* an edit was just answered NotFound while another booking is stored
C15_Witness ==
    /\ last.op = "edit"
    /\ last.reason = NotFound
    /\ bookings # {}
    /\ \A b \in bookings : b.id # last.id

-----------------------------------------------------------------------------
(* DELETE /api/bookings/:id, interleaved: every await of the handler is a
   step, and every awaited storage call either answers or throws *)

CancelCatch_DeletesAnyway(bks, id) == deleteBooking(bks, id)

\* catch (error) { console.error(...); res.status(500) }: no storage call
CancelCatch(bks, id) == bks

\* the request arrives; storage.getBooking(req.params.id) is awaited
CancelBegin(p, id) ==
    /\ procs[p].pc = "idle"
    /\ procs' = [procs EXCEPT ![p] =
                    [pc |-> "getBooking", op |-> "cancel", id |-> id,
                     booking |-> {}, failedAt |-> ""]]
    /\ UNCHANGED <<bookings, cancellations, nextId, last>>

\* getBooking answers; if (booking) the snapshot is next, else the delete
CancelGetBooking(p) ==
    /\ procs[p].pc = "getBooking"
    /\ LET booking == getBooking(bookings, procs[p].id)
       IN procs' = [procs EXCEPT ![p] =
                       [@ EXCEPT !.pc = IF booking # {} THEN "createCancellation"
                                                        ELSE "deleteBooking",
                                 !.booking = booking]]
    /\ UNCHANGED <<bookings, cancellations, nextId, last>>

\* storage.createCancellation({...booking}) answers
CancelCreateCancellation(p) ==
    /\ procs[p].pc = "createCancellation"
    /\ cancellations' =
          createCancellation(cancellations, CHOOSE b \in procs[p].booking : TRUE)
    /\ procs' = [procs EXCEPT ![p] = [@ EXCEPT !.pc = "deleteBooking"]]
    /\ UNCHANGED <<bookings, nextId, last>>

\* storage.deleteBooking(req.params.id) answers, then 204
CancelDeleteBooking(p) ==
    /\ procs[p].pc = "deleteBooking"
    /\ bookings' = deleteBooking(bookings, procs[p].id)
    /\ procs' = [procs EXCEPT ![p] = [@ EXCEPT !.pc = "done"]]
    /\ UNCHANGED <<cancellations, nextId, last>>

\* the awaited storage call throws without having written; the catch answers 500
CancelThrow(p) ==
    /\ procs[p].pc \in {"getBooking", "createCancellation", "deleteBooking"}
    /\ bookings' = CancelCatch(bookings, procs[p].id)
    /\ procs' = [procs EXCEPT ![p] =
                    [@ EXCEPT !.pc = "failed", !.failedAt = procs[p].pc]]
    /\ UNCHANGED <<cancellations, nextId, last>>

CancelRaceInputs ==
    { BookingData(r, 1, Slot("hourly", 20, 4, 800), Client("walk_in_a", "Bob", "")) :
        r \in Rooms }

NextCancelRace ==
    \/ \E raw \in CancelRaceInputs : Create(raw, FALSE)
    \/ \E p \in Procs :
          \/ \E id \in Ids : CancelBegin(p, id)
          \/ CancelGetBooking(p)
          \/ CancelCreateCancellation(p)
          \/ CancelDeleteBooking(p)
          \/ CancelThrow(p)

SpecCancelRace == Init /\ [][NextCancelRace]_vars

\* the cancel served by p has written its Cancellation
Snapshotted(p) ==
    /\ procs[p].pc # "idle"
    /\ procs[p].booking # {}
    /\ \/ procs[p].pc \in {"deleteBooking", "done"}
       \/ procs[p].pc = "failed" /\ procs[p].failedAt = "deleteBooking"

\* C12: under any interleaving of cancels, two of the same id included, at most
\* one Cancellation is created per booking: once every cancel that was started
\* has been answered 204, the Cancellations are no more than the bookings removed.
C12_OneCancellationPerBooking ==
    (\A p \in Procs : procs[p].pc \in {"idle", "done"})
      => Len(cancellations) <= (nextId - 1) - Cardinality(bookings)

\* C13: snapshot and delete are atomic as a pair: no state holds a Cancellation
\* written by a cancel together with the booking it was taken from, a failed
\* delete and a request running between the two steps included.
C13_SnapshotDeleteAtomic ==
    \A p \in Procs :
        Snapshotted(p) => \A b \in bookings : b.id # procs[p].id

\* C14: the Cancellation is written before the booking is deleted (a cancel
\* deletes a booking it found only when that booking's snapshot is among the
\* Cancellations), and a cancel whose snapshot write fails changes no booking
\* and no Cancellation and deletes nothing afterwards.
C14_SnapshotBeforeDelete ==
    [][ \A p \in Procs :
          /\ (procs[p].pc = "createCancellation" /\ procs'[p].pc = "failed")
                => (bookings' = bookings /\ cancellations' = cancellations)
          /\ procs[p].pc = "failed" => procs'[p] = procs[p]
          /\ (procs[p].pc = "deleteBooking" /\ procs'[p].pc = "done"
                /\ procs[p].booking # {})
                => \E i \in DOMAIN cancellations, b \in procs[p].booking :
                      cancellations[i] =
                        [userId |-> b.userId, userName |-> b.userName,
                         userPhone |-> b.userPhone, roomNumber |-> b.roomNumber,
                         date |-> b.date, bookingType |-> b.bookingType,
                         price |-> b.price] ]_vars

\* a cancel was answered 500 because its snapshot write failed: the booking it
\* read is still stored as read and no Cancellation exists
C14_Witness ==
    \E p \in Procs :
        /\ procs[p].pc = "failed"
        /\ procs[p].failedAt = "createCancellation"
        /\ procs[p].booking \subseteq bookings
        /\ procs[p].booking # {}
        /\ cancellations = << >>

-----------------------------------------------------------------------------
(* Field resolution of an edit *)

\* the hourly booking b left by the accepted edit kept in last carries, field by
\* field, the request's value where supplied(field) holds and the value stored
\* before elsewhere, and stands in no room conflict with another stored booking
EditedAsResolved(b, suppliedRoom, suppliedDate) ==
    LET req == last.req
        before == last.before
    IN /\ b.roomNumber = IF suppliedRoom THEN req.roomNumber ELSE before.roomNumber
       /\ b.date = IF suppliedDate THEN req.date ELSE before.date
       /\ b.bookingType = IF req.bookingType # "" THEN req.bookingType
                                                 ELSE before.bookingType
       /\ b.startHour = IF req.startHour # ABSENT THEN req.startHour
                                                  ELSE before.startHour
       /\ b.duration = IF req.duration # ABSENT THEN req.duration
                                                ELSE before.duration
       /\ \A o \in bookings : ~RoomConflict(b, o)

\* C16 (as stated): after an accepted edit resulting in an hourly booking, each
\* of roomNumber, date, bookingType, startHour and duration is the request's
\* value if the request supplied it and the stored value otherwise, and the
\* admission check ran on these values.
C16_EditFieldsResolved ==
    (last.op = "edit" /\ last.reason = Ok)
      => \A b \in bookings :
            (b.id = last.id /\ b.bookingType = "hourly")
              => EditedAsResolved(b, last.req.roomNumber # ABSENT,
                                     last.req.date # ABSENT)

\* C16 (amended): the same, where roomNumber and date count as supplied only
\* when the request's value is truthy (a roomNumber of 0 is read as left out).
C16_EditTruthyFieldsResolved ==
    (last.op = "edit" /\ last.reason = Ok)
      => \A b \in bookings :
            (b.id = last.id /\ b.bookingType = "hourly")
              => EditedAsResolved(b, last.req.roomNumber \notin {ABSENT, 0},
                                     last.req.date \notin {ABSENT, 0})

\* an accepted edit moved an hourly booking from room 1 to the supplied room 2
\* and left its other fields as stored
C16_Witness ==
    /\ last.op = "edit"
    /\ last.reason = Ok
    /\ last.req.roomNumber = 2
    /\ last.before.roomNumber = 1
    /\ \E b \in bookings :
          /\ b.id = last.id /\ b.bookingType = "hourly" /\ b.roomNumber = 2
          /\ b.startHour = last.before.startHour

-----------------------------------------------------------------------------
(* Attribution of a create to a registered user *)

\* a stored booking of userId, other than the one the create kept in last
\* wrote, that the cross-room client rule forbids beside the request req
HoldsElsewhere(userId, req) ==
    \E o \in bookings :
        /\ o.id # last.id
        /\ o.userId = userId
        /\ o.date = req.date
        /\ o.roomNumber # req.roomNumber
        /\ \/ req.bookingType = "daily"
           \/ o.bookingType = "daily"
           \/ Interval(o) \cap
                (Num(req.startHour) .. (Num(req.startHour) + Num(req.duration) - 1)) # {}

\* C17: a create whose normalised phone is the phone of a registered user is
\* persisted, when accepted, with that user's id and name instead of the
\* caller's, and is rejected when that user already holds a conflicting
\* booking in another room on the date.
C17_CreateForRegisteredUser ==
    \A u \in Users :
        (/\ last.op = "create"
         /\ last.req.userPhone # ""
         /\ normalizePhone(last.req.userPhone) = u.phone)
          => /\ last.reason = Ok
                  => \E b \in bookings :
                        b.id = last.id /\ b.userId = u.id /\ b.userName = u.name
             /\ HoldsElsewhere(u.id, last.req) => last.reason # Ok

\* a walk-in create carrying the registered user's phone was refused by the
\* client rule because of a booking stored under the user's id with no phone
C17_Witness ==
    /\ last.op = "create"
    /\ last.req.userId = "walk_in_c"
    /\ last.reason = ClientTimeConflict
    /\ \E u \in Users :
          /\ normalizePhone(last.req.userPhone) = u.phone
          /\ HoldsElsewhere(u.id, last.req)
          /\ \A o \in bookings : o.userId = u.id /\ o.userPhone = ""

-----------------------------------------------------------------------------
(* Merge of two clients *)

\* record n carries the target attribution of the merge request m
CarriesTarget(n, m) ==
    /\ n.userId = m.targetUserId
    /\ n.userName = m.targetUserName
    /\ n.userPhone = normalizePhone(m.targetUserPhone)

\* C18: after a merge with sourceUserId # targetUserId no booking and no
\* Cancellation has userId = sourceUserId, every record that had it carries
\* (targetUserId, targetUserName, normalize(targetUserPhone)), and updatedCount
\* is the number of bookings plus Cancellations that had userId = sourceUserId.
C18_MergeReassignsAll ==
    [][ (last'.op = "merge" /\ last'.req.sourceUserId # last'.req.targetUserId)
          => LET m == last'.req
                 src == m.sourceUserId
             IN /\ \A n \in bookings' : n.userId # src
                /\ \A i \in DOMAIN cancellations' : cancellations'[i].userId # src
                /\ \A b \in bookings :
                      b.userId = src
                        => \E n \in bookings' : n.id = b.id /\ CarriesTarget(n, m)
                /\ DOMAIN cancellations' = DOMAIN cancellations
                /\ \A i \in DOMAIN cancellations :
                      cancellations[i].userId = src
                        => CarriesTarget(cancellations'[i], m)
                /\ last'.updatedCount =
                      Cardinality({ b \in bookings : b.userId = src })
                        + Cardinality({ i \in DOMAIN cancellations :
                                          cancellations[i].userId = src }) ]_vars

\* a merge of the walk-in client into the registered user just moved one
\* booking and one Cancellation
C18_Witness ==
    /\ last.op = "merge"
    /\ last.req.sourceUserId = "walk_in_a" /\ last.req.targetUserId = "u1"
    /\ last.updatedCount = 2
    /\ Len(cancellations) = 1 /\ CarriesTarget(cancellations[1], last.req)
    /\ \E n \in bookings : CarriesTarget(n, last.req)

\* C19: merge runs no admission check: every merge is answered as a success,
\* moves every booking of the source to the target and leaves each booking's
\* room, date, type and time as they were, so from a state satisfying the
\* cross-room client rule it can leave one userId with overlapping bookings in
\* different rooms.
C19_MergeUnchecked ==
    [][ last'.op = "merge"
          => /\ last'.reason = Ok
             /\ \A b \in bookings :
                   \E n \in bookings' :
                      /\ n.id = b.id
                      /\ n.roomNumber = b.roomNumber /\ n.date = b.date
                      /\ n.bookingType = b.bookingType
                      /\ n.startHour = b.startHour /\ n.duration = b.duration
                      /\ b.userId = last'.req.sourceUserId
                           => n.userId = last'.req.targetUserId ]_vars

\* a merge just moved exactly one of the two stored bookings to the userId of
\* the other (so no userId held both before): they overlap in different rooms
C19_Witness ==
    /\ last.op = "merge"
    /\ last.reason = Ok
    /\ last.updatedCount = 1
    /\ cancellations = << >>
    /\ Cardinality(bookings) = 2
    /\ ~C3_ClientCrossRoom
    /\ \A b \in bookings : b.userId = last.req.targetUserId

-----------------------------------------------------------------------------
(* Dedup run again *)

\* C20: a dedup run immediately after a completed dedup, with no other request
\* in between, performs zero writes and returns updatedCount = 0.
C20_SecondDedupWritesNothing ==
    (last.op = "dedup" /\ last.prevOp = "dedup") => last.updatedCount = 0

-----------------------------------------------------------------------------
(* Walk-in clients at the desk: bookings taken under several walk-in ids and
   spellings of one name, cancelled, merged and deduplicated *)

WalkInCreateInputs ==
    { BookingData(r, 1, sl, c) :
        r \in Rooms,
        sl \in { Slot("hourly", 20, 4, 800), Slot("hourly", 24, 2, 400) },
        c \in { Client("walk_in_a", "Bob", ""),
                Client("walk_in_b", " bob", "89990000000"),
                Client("walk_in_c", "BOB", "") } }

WalkInMergeInputs ==
    { [sourceUserId |-> "walk_in_c", targetUserId |-> "u1",
       targetUserName |-> "Ann", targetUserPhone |-> "8 912 345-67-89"] }

WalkInCreateStep == \E raw \in WalkInCreateInputs : Create(raw, TRUE)
WalkInCancelStep == \E id \in Ids : Cancel(id, TRUE)
WalkInMergeStep == \E m \in WalkInMergeInputs : Merge(m, TRUE)
WalkInDedupStep == Dedup(TRUE)

NextWalkIn == WalkInCreateStep \/ WalkInCancelStep \/ WalkInMergeStep \/ WalkInDedupStep

SpecWalkIn == Init /\ [][NextWalkIn]_vars

\* the first member of the group with a non-empty phone, or the first member
GroupLeader(group) ==
    LET phoned == { i \in DOMAIN group : Trim(group[i].userPhone) # "" }
    IN IF phoned # {}
         THEN group[CHOOSE i \in phoned : \A j \in phoned : i <= j]
         ELSE group[1]

\* the walk-in rows of key name in the rows read, in the order read
WalkInGroup(allBookings, name) ==
    SelectSeq(allBookings, LAMBDA b : IsWalkIn(b.userId) /\ GroupKey(b) = name)

C22_CancellationJoinsGroup ==
    [][ last'.op = "dedup"
          => \E allBookings \in getBookings(bookings) :
                \A i \in DOMAIN cancellations :
                    LET c == cancellations[i]
                        group == WalkInGroup(allBookings, GroupKey(c))
                    IN (IsWalkIn(c.userId) /\ GroupKey(c) # "" /\ Len(group) > 0)
                         => cancellations'[i].userId = GroupLeader(group).userId
      ]_vars

\* a dedup just made exactly one write, to the Cancellation: it now carries the
\* walk-in id and phone of the one stored booking
C22_Witness ==
    /\ last.op = "dedup"
    /\ last.updatedCount = 1
    /\ Len(cancellations) = 1
    /\ Cardinality(bookings) = 1
    /\ \A b \in bookings :
          /\ b.userId = "walk_in_b"
          /\ cancellations[1].userId = b.userId
          /\ cancellations[1].userPhone = "9990000000"

-----------------------------------------------------------------------------
(* POST /api/admin/merge-clients stopped by a storage failure, then sent again *)

\* the bookings the first loop writes, in the order read
MergeBookingWrites(allBookings, sourceUserId) ==
    SelectSeq(allBookings, LAMBDA b : b.userId = sourceUserId)

\* the Cancellations the second loop writes: getCancellations() reads the
\* latest first
MergeCancellationWrites(cs, sourceUserId) ==
    LET idx == { i \in DOMAIN cs : cs[i].userId = sourceUserId }
    IN [j \in 1..Cardinality(idx) |->
          CHOOSE i \in idx : Cardinality({ x \in idx : x > i }) = j - 1]

RECURSIVE ApplyBookingWrites(_, _, _, _, _)
\* the first k awaited updateBookingClient calls of the first loop
ApplyBookingWrites(bks, rows, k, m, phone) ==
    IF k = 0 THEN bks
    ELSE updateBookingClient(ApplyBookingWrites(bks, rows, k - 1, m, phone),
                             rows[k].id, m.targetUserId, m.targetUserName, phone)

RECURSIVE ApplyCancellationWrites(_, _, _, _, _)
\* the first k awaited updateCancellationClient calls of the second loop
ApplyCancellationWrites(cs, idx, k, m, phone) ==
    IF k = 0 THEN cs
    ELSE updateCancellationClient(ApplyCancellationWrites(cs, idx, k - 1, m, phone),
                                  idx[k], m.targetUserId, m.targetUserName, phone)

\* the handler makes its first k writes, the next storage call throws and the
\* catch answers 500
MergeInterrupted(m) ==
    /\ m.sourceUserId # "" /\ m.targetUserId # ""
    /\ \E allBookings \in getBookings(bookings) :
        LET phone == normalizePhone(m.targetUserPhone)
            rows == MergeBookingWrites(allBookings, m.sourceUserId)
            idx == MergeCancellationWrites(cancellations, m.sourceUserId)
        IN \E k \in 0..(Len(rows) + Len(idx)) :
              /\ k = 0 \/ k < Len(rows) + Len(idx)
              /\ bookings' = ApplyBookingWrites(bookings, rows,
                                 IF k < Len(rows) THEN k ELSE Len(rows), m, phone)
              /\ cancellations' = ApplyCancellationWrites(cancellations, idx,
                                 IF k < Len(rows) THEN 0 ELSE k - Len(rows), m, phone)
              /\ last' = [op |-> "mergeInterrupted", req |-> m, reason |-> "Failed",
                          written |-> k,
                          before |-> [bookings |-> bookings,
                                      cancellations |-> cancellations]]
    /\ UNCHANGED <<nextId, procs>>

RetryCreateInputs ==
    { BookingData(r, 1, Slot("hourly", 20, 4, 800), c) :
        r \in Rooms,
        c \in { Client("u1", "Ann", ""), Client("walk_in_a", "Bob", "") } }

RetryCreateStep == \E raw \in RetryCreateInputs : Create(raw, TRUE)
RetryCancelStep == \E id \in Ids : Cancel(id, TRUE)
RetryMergeStep == \E m \in DeskMergeInputs : Merge(m, TRUE)
RetryMergeInterruptedStep == \E m \in DeskMergeInputs : MergeInterrupted(m)

NextMergeRetry ==
    RetryCreateStep \/ RetryCancelStep \/ RetryMergeStep \/ RetryMergeInterruptedStep

SpecMergeRetry == Init /\ [][NextMergeRetry]_vars

\* C23: a merge stopped by a storage failure after any prefix of its writes and
\* then sent again with the same arguments and served to completion leaves the
\* bookings and Cancellations that one uninterrupted merge of the tables as
\* they were before the stopped one leaves.
C23_MergeRerunCompletes ==
    [][ (last.op = "mergeInterrupted" /\ last'.op = "merge" /\ last'.req = last.req)
          => LET m == last.req
                 phone == normalizePhone(m.targetUserPhone)
             IN /\ bookings' = MergeBookings(last.before.bookings, m.sourceUserId,
                                             m.targetUserId, m.targetUserName, phone)
                /\ cancellations' =
                      MergeCancellations(last.before.cancellations, m.sourceUserId,
                                         m.targetUserId, m.targetUserName, phone)
      ]_vars

\* a merge sent right after a stopped one has completed with one write: the
\* booking and the Cancellation both carry the target
C23_Witness ==
    /\ last.op = "merge"
    /\ last.prevOp = "mergeInterrupted"
    /\ last.updatedCount = 1
    /\ last.req.sourceUserId = "walk_in_a"
    /\ Len(cancellations) = 1 /\ CarriesTarget(cancellations[1], last.req)
    /\ Cardinality(bookings) = 1
    /\ \A b \in bookings : CarriesTarget(b, last.req)

-----------------------------------------------------------------------------
(* What merge and dedup leave alone *)

\* C24: merge and dedup change only userId, userName and userPhone: they create
\* and delete no booking and no Cancellation and change no record's roomNumber,
\* date, bookingType, startHour, duration or price.
C24_ReconciliationFrame ==
    [][ last'.op \in {"merge", "dedup"}
          => /\ { n.id : n \in bookings' } = { b.id : b \in bookings }
             /\ Cardinality(bookings') = Cardinality(bookings)
             /\ \A b \in bookings, n \in bookings' :
                   n.id = b.id
                     => /\ n.roomNumber = b.roomNumber /\ n.date = b.date
                        /\ n.bookingType = b.bookingType
                        /\ n.startHour = b.startHour /\ n.duration = b.duration
                        /\ n.price = b.price
             /\ DOMAIN cancellations' = DOMAIN cancellations
             /\ \A i \in DOMAIN cancellations :
                   /\ cancellations'[i].roomNumber = cancellations[i].roomNumber
                   /\ cancellations'[i].date = cancellations[i].date
                   /\ cancellations'[i].bookingType = cancellations[i].bookingType
                   /\ cancellations'[i].price = cancellations[i].price ]_vars

\* a merge just moved a booking and a Cancellation to the registered user:
\* the booking is still the one in room 2 from unit 24, the Cancellation still
\* that of the 800 booking
C24_Witness ==
    /\ last.op = "merge"
    /\ last.updatedCount = 2
    /\ Len(cancellations) = 1
    /\ cancellations[1].userId = "u1" /\ cancellations[1].price = 800
    /\ \E n \in bookings :
          /\ n.userId = "u1"
          /\ n.roomNumber = 2 /\ n.startHour = 24 /\ n.price = 400

-----------------------------------------------------------------------------
(* normalizePhone applied to what it returned *)

\* the number 9123456789 written with a trunk digit and formatting characters
FormattedTrunkPhones ==
    { lead \o trunk \o a \o "912" \o b \o "345" \o c \o "67" \o c \o "89" :
        lead \in {"", "+", "tel: "},
        trunk \in {"7", "8"},
        a \in {"", " ", " (", "-"},
        b \in {"", " ", ") ", "-"},
        c \in {"", " ", "-", "."} }

\* other strings a caller may send as a phone
OtherPhones ==
    { "", " ", "+", "abc", "9123456789", "+9123456789", "912 345 67 89",
      "71234567890", "77123456789", "88123456789", "78", "7", "8",
      "7912345678", "8912345678", "791234567890", "891234567890",
      "91234567890", "01234567890", "8 (800) 555-35-35", "+1 202 555 0100",
      "7-7-7", "87", "+7", "8 7 9123456789", "779123456789" }

PhoneInputs == FormattedTrunkPhones \cup OtherPhones

InitPhone ==
    /\ bookings = {}
    /\ cancellations = << >>
    /\ nextId = 1
    /\ procs = [p \in Procs |-> Idle]
    /\ last \in { [op |-> "normalizePhone", input |-> x, outputs |-> << >>] :
                    x \in PhoneInputs }

\* normalizePhone is called on the input, then on what it returned
NormalizeStep ==
    /\ last.op = "normalizePhone"
    /\ Len(last.outputs) < 2
    /\ last' = [last EXCEPT !.outputs =
                  Append(@, normalizePhone(IF @ = << >> THEN last.input
                                                        ELSE @[Len(@)]))]
    /\ UNCHANGED <<bookings, cancellations, nextId, procs>>

NextPhone == NormalizeStep

SpecPhone == InitPhone /\ [][NextPhone]_vars

\* C25: normalizePhone(normalizePhone(x)) = normalizePhone(x) for every input,
\* and every writing of 9123456789 with a single leading 7 or 8 and any
\* non-digit formatting gives the ten digits the bare number gives.
C25_NormalizeIdempotent ==
    /\ Len(last.outputs) = 2 => last.outputs[2] = last.outputs[1]
    /\ (Len(last.outputs) >= 1 /\ last.input \in FormattedTrunkPhones)
          => last.outputs[1] = "9123456789"
    /\ (Len(last.outputs) >= 1 /\ last.input = "9123456789")
          => last.outputs[1] = "9123456789"

\* "+7 (912) 345-67-89" has been normalised twice
C25_Witness ==
    /\ last.input = "+7 (912) 345-67-89"
    /\ Len(last.outputs) = 2
    /\ last.outputs[1] = "9123456789"

-----------------------------------------------------------------------------
(* The life of a Cancellation *)

\* C26: a Cancellation, once created, is never deleted and its roomNumber,
\* date, bookingType and price never change under create, edit, cancel, merge
\* and dedup; its userId, userName and userPhone change only in a merge or a
\* dedup.
C26_CancellationKept ==
    [][ /\ Len(cancellations') >= Len(cancellations)
        /\ \A i \in DOMAIN cancellations :
              LET c == cancellations[i]
                  n == cancellations'[i]
              IN /\ n.roomNumber = c.roomNumber /\ n.date = c.date
                 /\ n.bookingType = c.bookingType /\ n.price = c.price
                 /\ (n.userId # c.userId \/ n.userName # c.userName
                       \/ n.userPhone # c.userPhone)
                      => last'.op \in {"merge", "dedup"} ]_vars

\* a merge just moved both Cancellations to the registered user; nothing is
\* stored apart from them
C26_Witness ==
    /\ last.op = "merge"
    /\ last.req.sourceUserId = "walk_in_a"
    /\ last.updatedCount = 2
    /\ bookings = {}
    /\ Len(cancellations) = 2
    /\ \A i \in DOMAIN cancellations : CarriesTarget(cancellations[i], last.req)

-----------------------------------------------------------------------------
(* The admission rules, read off the last create or edit and its response *)

\* last is a create, or an edit of a stored booking
Proposing == last.op = "create" \/ (last.op = "edit" /\ last.reason # NotFound)

\* the room, date, type, start and length the request kept in last proposes
ProposedRoom ==
    IF last.op = "edit" /\ last.req.roomNumber \in {ABSENT, 0}
      THEN last.before.roomNumber ELSE last.req.roomNumber

ProposedDate ==
    IF last.op = "edit" /\ last.req.date \in {ABSENT, 0}
      THEN last.before.date ELSE last.req.date

ProposedType ==
    IF last.op = "edit" /\ last.req.bookingType = ""
      THEN last.before.bookingType ELSE last.req.bookingType

ProposedStart ==
    IF last.op = "edit" /\ last.req.startHour = ABSENT
      THEN Num(last.before.startHour) ELSE Num(last.req.startHour)

ProposedEnd ==
    ProposedStart + (IF last.op = "edit" /\ last.req.duration = ABSENT
                       THEN Num(last.before.duration) ELSE Num(last.req.duration))

\* the stored bookings of the proposed room and date, the proposal's own aside
InProposedRoom ==
    { o \in bookings :
        o.id # last.id /\ o.roomNumber = ProposedRoom /\ o.date = ProposedDate }

\* C27: type exclusivity is checked first, on create and on edit: a daily
\* proposal is rejected with RoomOccupiedWholeDay whenever its room and date
\* hold any other booking, and an hourly proposal is rejected with
\* RoomReservedForDay whenever they hold another booking that is daily.
C27_TypeExclusivityFirst ==
    Proposing
      => /\ (ProposedType = "daily" /\ InProposedRoom # {})
              => last.reason = RoomOccupiedWholeDay
         /\ (ProposedType = "hourly" /\ \E o \in InProposedRoom : o.bookingType = "daily")
              => last.reason = RoomReservedForDay

\* an edit that moves an hourly booking into the room of a daily one, over
\* hours the daily booking covers, was answered RoomReservedForDay
C27_Witness ==
    /\ last.op = "edit"
    /\ last.reason = RoomReservedForDay
    /\ ProposedType = "hourly"
    /\ \E o \in InProposedRoom :
          /\ o.bookingType = "daily"
          /\ ProposedStart < Num(o.startHour) + Num(o.duration)
          /\ ProposedEnd > Num(o.startHour)

\* the proposal's interval meets that of the stored booking o:
\* start < other.end and end > other.start
MeetsProposed(o) ==
    /\ ProposedStart < Num(o.startHour) + Num(o.duration)
    /\ ProposedEnd > Num(o.startHour)

\* C28: an hourly proposal for a room and date holding only hourly bookings is
\* rejected with TimeSlotOverlap exactly when [start, start + duration) meets
\* the interval of another booking of the room; a proposal that starts where
\* one ends, or ends where one starts, is not rejected by this rule.
C28_OverlapExactly ==
    (Proposing /\ ProposedType = "hourly"
       /\ \A o \in InProposedRoom : o.bookingType = "hourly")
      => (last.reason = TimeSlotOverlap <=> \E o \in InProposedRoom : MeetsProposed(o))

\* a create that starts exactly where the other booking of its room ends was
\* accepted
C28_Witness ==
    /\ last.op = "create"
    /\ last.reason = Ok
    /\ ProposedType = "hourly"
    /\ ProposedEnd > ProposedStart
    /\ \E o \in InProposedRoom :
          /\ o.bookingType = "hourly"
          /\ Num(o.startHour) + Num(o.duration) = ProposedStart
          /\ Num(o.duration) > 0

\* the client the proposal is admitted for: the create's data after phone
\* normalisation and re-attribution, the stored booking for an edit
ProposedClient ==
    IF last.op = "create" THEN CreateNormalize(last.req) ELSE last.before

\* the stored bookings of that client (same userId, or same non-empty phone)
\* on the proposed date in other rooms, the proposal's own aside
ClientElsewhere ==
    { o \in bookings :
        /\ o.id # last.id
        /\ o.date = ProposedDate
        /\ o.roomNumber # ProposedRoom
        /\ \/ o.userId = ProposedClient.userId
           \/ (ProposedClient.userPhone # "" /\ o.userPhone = ProposedClient.userPhone) }

\* the proposal was not rejected by a room/date rule
PassedRoomRules ==
    last.reason \notin {RoomOccupiedWholeDay, RoomReservedForDay, TimeSlotOverlap}

\* C29: an hourly proposal that passes the room/date rules, for a client who
\* holds a daily booking in a different room on the date, is rejected with
\* ClientBookedElsewhere.
C29_DailyElsewhereReason ==
    (Proposing /\ ProposedType = "hourly" /\ PassedRoomRules
       /\ \E o \in ClientElsewhere : o.bookingType = "daily")
      => last.reason = ClientBookedElsewhere

\* C30: an hourly proposal that passes the room/date rules, for a client whose
\* other bookings on the date in different rooms are all hourly, is rejected
\* with ClientTimeConflict exactly when its interval meets one of them and is
\* accepted otherwise; the client's bookings in the proposed room are ignored.
C30_ClientConflictExactly ==
    (Proposing /\ ProposedType = "hourly" /\ PassedRoomRules
       /\ \A o \in ClientElsewhere : o.bookingType = "hourly")
      => IF \E o \in ClientElsewhere : MeetsProposed(o)
           THEN last.reason = ClientTimeConflict
           ELSE last.reason = Ok

\* a create for a client whose one booking elsewhere is hourly and meets the
\* proposed interval was answered ClientTimeConflict
C30_Witness ==
    /\ last.op = "create"
    /\ last.reason = ClientTimeConflict
    /\ ProposedType = "hourly"
    /\ \E o \in ClientElsewhere : o.bookingType = "hourly" /\ MeetsProposed(o)

-----------------------------------------------------------------------------
(* The admission desk: create and edit served one at a time with up to three
   ids given out, so that a proposal can meet one booking in its room and
   another of its client elsewhere; the last request and its response kept *)

AdmissionMaxId == 3

\* walk_in_b and walk_in_d give the same phone in two writings; walk_in_a and
\* walk_in_e give none
AdmissionClients ==
    { Client("walk_in_b", " bob", "89990000000"),
      Client("walk_in_d", "Dan", "+7 999 000-00-00"),
      Client("walk_in_a", "Bob", ""),
      Client("walk_in_e", "Eve", "") }

AdmissionCreateInputs ==
    { BookingData(r, 1, sl, c) :
        r \in Rooms,
        sl \in { Slot("hourly", 20, 4, 800), Slot("hourly", 24, 2, 400),
                 Slot("daily", NULL, NULL, 3200) },
        c \in AdmissionClients }

AdmissionEditBodies ==
    { NoBody,
      [NoBody EXCEPT !.startHour = 22],
      [NoBody EXCEPT !.roomNumber = 2],
      [NoBody EXCEPT !.bookingType = "daily"] }

AdmissionCreateStep == \E raw \in AdmissionCreateInputs : CreateWithin(raw, TRUE, AdmissionMaxId)
AdmissionEditStep == \E id \in 1..AdmissionMaxId, body \in AdmissionEditBodies : Edit(id, body, TRUE)

NextAdmission == AdmissionCreateStep \/ AdmissionEditStep

SpecAdmission == Init /\ [][NextAdmission]_vars

-----------------------------------------------------------------------------
(* The order of the admission rules *)

\* the reason of the first room/date rule the proposal kept in last breaks
\* against the stored bookings of its room and date, or Ok
RoomRuleReason ==
    IF ProposedType = "daily"
      THEN IF InProposedRoom # {} THEN RoomOccupiedWholeDay ELSE Ok
      ELSE IF \E o \in InProposedRoom : o.bookingType = "daily"
             THEN RoomReservedForDay
             ELSE IF \E o \in InProposedRoom : MeetsProposed(o)
                    THEN TimeSlotOverlap
                    ELSE Ok

\* the proposal breaks the cross-room client rule: a daily proposal beside any
\* booking of the client elsewhere, an hourly one beside a daily or an
\* overlapping booking of the client elsewhere
BreaksClientRule ==
    IF ProposedType = "daily"
      THEN ClientElsewhere # {}
      ELSE \E o \in ClientElsewhere : o.bookingType = "daily" \/ MeetsProposed(o)

ClientReasons == {ClientBookedElsewhere, ClientTimeConflict}

\* C31: the rules are applied in the order type exclusivity, overlap, client
\* exclusivity and the first that fails gives the reason: a create or edit that
\* breaks a room/date rule is answered with that rule's reason, also when it
\* breaks the client rule too, and one that breaks no room/date rule is
\* answered with a client reason exactly when it breaks the client rule.
C31_FirstFailingRuleWins ==
    Proposing
      => /\ RoomRuleReason # Ok => last.reason = RoomRuleReason
         /\ RoomRuleReason = Ok => (last.reason \in ClientReasons <=> BreaksClientRule)

\* an edit that breaks both a room/date rule and the client rule was answered
\* with the room/date rule's reason
C31_Witness ==
    /\ last.op = "edit"
    /\ Proposing
    /\ RoomRuleReason # Ok
    /\ BreaksClientRule
    /\ last.reason = RoomRuleReason

-----------------------------------------------------------------------------
(* The edited booking is no obstacle to its own edit *)

\* the proposal of the edit kept in last would clash with the booking's own
\* values before the edit, were they compared: in the same room and date by
\* type or interval, from another room as a booking of the same client
MeetsOwnValues ==
    /\ ProposedDate = last.before.date
    /\ \/ ProposedType = "daily"
       \/ last.before.bookingType = "daily"
       \/ MeetsProposed(last.before)

\* C32: an edit whose proposal breaks no room/date rule and no client rule
\* against the bookings other than the edited one is accepted, whatever the
\* edited booking's own room, date and interval before the edit.
C32_EditExcludesItself ==
    (last.op = "edit" /\ Proposing /\ RoomRuleReason = Ok /\ ~BreaksClientRule)
      => last.reason = Ok

\* an edit that moved the start of a booking inside its own earlier interval,
\* in its own room, was accepted beside another stored booking
C32_Witness ==
    /\ last.op = "edit"
    /\ Proposing
    /\ last.reason = Ok
    /\ MeetsOwnValues
    /\ ProposedRoom = last.before.roomNumber
    /\ ProposedType = "hourly"
    /\ ProposedStart # Num(last.before.startHour)
    /\ \E o \in bookings : o.id # last.id

-----------------------------------------------------------------------------
(* Dedup over the tables as it may find them: user_phone is a free text column,
   and the handler itself looks for stored phones that are not in canonical
   form (the handlers above store none) *)

\* what the user_phone column of a walk-in row may hold
StoredPhones == { "", "9990000000", "89990000000", "+7 (999) 000-00-00" }

\* a stored hourly row of a walk-in client
StoredRow(id, room, userId, userName, userPhone) ==
    [id |-> id, roomNumber |-> room, date |-> 1, bookingType |-> "hourly",
     startHour |-> 20, duration |-> 4, price |-> 800,
     userId |-> userId, userName |-> userName, userPhone |-> userPhone]

StoredRows(id) ==
    { StoredRow(id, id, u, n, ph) :
        u \in {"walk_in_a", "walk_in_b"}, n \in {"Bob", " bob"}, ph \in StoredPhones }

\* tables of one row, or of two rows in different rooms
StoredTables ==
    { {a} : a \in StoredRows(1) }
      \cup { {a, b} : a \in StoredRows(1), b \in StoredRows(2) }

InitStored ==
    /\ bookings \in StoredTables
    /\ cancellations = <<>>
    /\ nextId = MaxId + 1
    /\ procs = [p \in Procs |-> Idle]
    /\ last = NoLast

StoredDedupStep == Dedup(TRUE)

NextStored == StoredDedupStep

SpecStored == InitStored /\ [][NextStored]_vars

\* C33: when a dedup has completed, every stored booking with a non-empty
\* userPhone holds it in canonical form: normalizePhone leaves it as it is.
C33_PhonesCanonicalAfterDedup ==
    last.op = "dedup"
      => \A b \in bookings :
            b.userPhone # "" => b.userPhone = normalizePhone(b.userPhone)

\* a dedup over a single row wrote it, and the row now holds the ten digits
C33_Witness ==
    /\ last.op = "dedup"
    /\ last.prevOp = "none"
    /\ last.updatedCount = 1
    /\ Cardinality(bookings) = 1
    /\ \A b \in bookings : b.userPhone = "9990000000"

-----------------------------------------------------------------------------
(* Dedup and the cross-room client rule *)

\* the cross-room client invariant on a table: a daily booking of a userId has
\* no booking of that userId beside it in another room on its date, and hourly
\* bookings of one userId in different rooms on one date do not overlap
CrossRoomHolds(bks) ==
    \A a, b \in bks :
        (a.id # b.id /\ a.userId = b.userId /\ a.date = b.date
            /\ a.roomNumber # b.roomNumber)
        => /\ a.bookingType # "daily"
           /\ b.bookingType # "daily"
           /\ Interval(a) \cap Interval(b) = {}

\* C34: a dedup applied to bookings that satisfy the cross-room client
\* invariant leaves bookings that satisfy it.
C34_DedupKeepsCrossRoom ==
    [][(last'.op = "dedup" /\ CrossRoomHolds(bookings)) => CrossRoomHolds(bookings')]_vars

-----------------------------------------------------------------------------
(* PUT /api/bookings/:id/edit, interleaved with cancels: every await of either
   handler is a step *)

\* the request arrives; storage.getBooking(req.params.id) is awaited
EditBegin(p, id, body) ==
    /\ procs[p].pc = "idle"
    /\ procs' = [procs EXCEPT ![p] =
                    [pc |-> "editGetBooking", op |-> "edit", id |-> id, body |-> body,
                     booking |-> {}, new |-> NoBody, reason |-> Ok, updated |-> 0]]
    /\ UNCHANGED <<bookings, cancellations, nextId, last>>

\* getBooking answers: 404, or the fields are resolved and getBookingsByRoom is awaited
EditGetBooking(p) ==
    /\ procs[p].pc = "editGetBooking"
    /\ LET found == getBooking(bookings, procs[p].id)
       IN procs' = [procs EXCEPT ![p] =
                       IF found = {}
                         THEN [@ EXCEPT !.pc = "done", !.reason = NotFound]
                         ELSE [@ EXCEPT !.pc = "editReadRoom", !.booking = found,
                                        !.new = EditResolve(CHOOSE b \in found : TRUE,
                                                            procs[p].body)]]
    /\ UNCHANGED <<bookings, cancellations, nextId, last>>

\* getBookingsByRoom answers; the room/date rules run on its rows but the edited one
EditReadRoom(p) ==
    /\ procs[p].pc = "editReadRoom"
    /\ LET new == procs[p].new
           otherBookings ==
               { b \in getBookingsByRoom(bookings, new.roomNumber, new.date) :
                   b.id # procs[p].id }
           r == EditRoomCheck(new, otherBookings)
       IN procs' = [procs EXCEPT ![p] =
                       [@ EXCEPT !.pc = IF r = Ok THEN "editReadDate" ELSE "done",
                                 !.reason = r]]
    /\ UNCHANGED <<bookings, cancellations, nextId, last>>

\* getBookingsByDate answers; the cross-room client rule runs on its rows
EditReadDate(p) ==
    /\ procs[p].pc = "editReadDate"
    /\ LET new == procs[p].new
           booking == CHOOSE b \in procs[p].booking : TRUE
           r == EditClientCheck(booking, new, getBookingsByDate(bookings, new.date))
       IN procs' = [procs EXCEPT ![p] =
                       [@ EXCEPT !.pc = IF r = Ok THEN "editWrite" ELSE "done",
                                 !.reason = r]]
    /\ UNCHANGED <<bookings, cancellations, nextId, last>>

\* storage.updateBookingDetails(req.params.id, ...) answers, then 200 { success: true };
\* updated is the number of rows the UPDATE met, which the handler does not look at
EditWriteStep(p) ==
    /\ procs[p].pc = "editWrite"
    /\ bookings' = EditWrite(procs[p].id, procs[p].new, procs[p].reason, bookings)
    /\ procs' = [procs EXCEPT ![p] =
                    [@ EXCEPT !.pc = "done",
                              !.updated = Cardinality(getBooking(bookings, procs[p].id))]]
    /\ UNCHANGED <<cancellations, nextId, last>>

EditRaceInputs ==
    { BookingData(r, 1, Slot("hourly", 20, 4, 800), Client("walk_in_a", "Bob", "")) :
        r \in Rooms }

EditRaceBodies == { [NoBody EXCEPT !.startHour = 22], [NoBody EXCEPT !.roomNumber = 2] }

NextEditRace ==
    \/ \E raw \in EditRaceInputs : Create(raw, FALSE)
    \/ \E p \in Procs :
          \/ \E id \in Ids, body \in EditRaceBodies : EditBegin(p, id, body)
          \/ EditGetBooking(p)
          \/ EditReadRoom(p)
          \/ EditReadDate(p)
          \/ EditWriteStep(p)
          \/ \E id \in Ids : CancelBegin(p, id)
          \/ CancelGetBooking(p)
          \/ CancelCreateCancellation(p)
          \/ CancelDeleteBooking(p)

SpecEditRace == Init /\ [][NextEditRace]_vars

\* a booking of this id is in the table
Stored(bks, id) == getBooking(bks, id) # {}

\* C35: a booking id goes from absent to stored only by an accepted create,
\* stays stored through edits, and goes from stored to removed only by the
\* delete of a cancel; an id that was given out and is no longer stored is
\* never stored again, also when an edit of it writes after the delete.
C35_RemovedStaysRemoved ==
    [][\A id \in Ids :
          /\ (~Stored(bookings, id) /\ Stored(bookings', id))
                => (id = nextId /\ nextId' = nextId + 1)
          /\ (Stored(bookings, id) /\ ~Stored(bookings', id))
                => \E p \in Procs :
                      /\ procs[p].pc = "deleteBooking"
                      /\ procs[p].id = id
                      /\ procs'[p].pc = "done"]_vars

\* an edit that had read its booking wrote after a cancel had deleted it: its
\* update met no row and the id is not stored
C35_Witness ==
    \E p, q \in Procs :
        /\ procs[p].pc = "done" /\ procs[p].op = "edit"
        /\ procs[p].reason = Ok /\ procs[p].updated = 0
        /\ procs[q].pc = "done" /\ procs[q].op = "cancel"
        /\ procs[q].id = procs[p].id
        /\ procs[p].id < nextId
        /\ ~Stored(bookings, procs[p].id)

\* C36: when an edit answers success, the booking of that id is stored with
\* the resolved roomNumber, date, type, startHour, duration and price.
C36_SuccessfulEditTookEffect ==
    [][\A p \in Procs :
          (procs[p].pc = "editWrite" /\ procs'[p].pc = "done")
            => \E b \in bookings' :
                  /\ b.id = procs[p].id
                  /\ b.roomNumber = procs[p].new.roomNumber
                  /\ b.date = procs[p].new.date
                  /\ b.bookingType = procs[p].new.bookingType
                  /\ b.startHour = procs[p].new.startHour
                  /\ b.duration = procs[p].new.duration
                  /\ b.price = procs[p].new.price]_vars

-----------------------------------------------------------------------------
(* What an accepted edit leaves alone *)

\* the attribution of a row
ClientOf(b) == <<b.userId, b.userName, b.userPhone>>

\* C37: an accepted edit leaves every Cancellation and every other booking as
\* it was, and leaves the edited booking's userId, userName and userPhone as
\* they were; only its roomNumber, date, startHour, duration, bookingType and
\* price may change.
C37_EditFrame ==
    [][(last'.op = "edit" /\ last'.reason = Ok)
         => /\ cancellations' = cancellations
            /\ { b \in bookings' : b.id # last'.id } = { b \in bookings : b.id # last'.id }
            /\ Cardinality(getBooking(bookings', last'.id)) = 1
            /\ \A b \in getBooking(bookings, last'.id), c \in getBooking(bookings', last'.id) :
                  ClientOf(c) = ClientOf(b)]_vars

\* an accepted edit moved the start of one booking while another is stored
C37_Witness ==
    /\ last.op = "edit"
    /\ last.reason = Ok
    /\ \E b \in bookings :
          /\ b.id = last.id
          /\ b.startHour # last.before.startHour
          /\ ClientOf(b) = ClientOf(last.before)
    /\ \E o \in bookings : o.id # last.id

-----------------------------------------------------------------------------
(* Who counts as the proposal's client *)

\* the stored bookings on the proposed date in other rooms, the proposal's own aside
OnDateElsewhere ==
    { o \in bookings :
        o.id # last.id /\ o.date = ProposedDate /\ o.roomNumber # ProposedRoom }

\* the stored booking o stands in the way of the proposal under the client rule,
\* were it a booking of the proposal's client
Clashes(o) ==
    ProposedType = "daily" \/ o.bookingType = "daily" \/ MeetsProposed(o)

\* o is held under another userId and carries the client's non-empty phone
SharesPhoneOnly(o) ==
    /\ o.userId # ProposedClient.userId
    /\ ProposedClient.userPhone # ""
    /\ o.userPhone = ProposedClient.userPhone

\* o has neither the client's userId nor the client's non-empty phone
SharesNothing(o) ==
    /\ o.userId # ProposedClient.userId
    /\ (ProposedClient.userPhone = "" \/ o.userPhone # ProposedClient.userPhone)

\* C38: a create or edit that passes the room/date rules is rejected by the
\* client rule when a clashing booking elsewhere on the date is held under
\* another userId with the client's non-empty phone, and a proposal rejected
\* by the client rule always has a clashing booking elsewhere on the date that
\* has the client's userId or the client's non-empty phone.
C38_ClientByUserIdOrPhone ==
    Proposing
      => /\ (RoomRuleReason = Ok
               /\ \E o \in OnDateElsewhere : SharesPhoneOnly(o) /\ Clashes(o))
              => last.reason \in ClientReasons
         /\ last.reason \in ClientReasons
              => \E o \in OnDateElsewhere : ~SharesNothing(o) /\ Clashes(o)

\* a create was rejected by the client rule although no stored booking has its
\* userId: the one that clashes carries its phone under another userId
C38_Witness ==
    /\ last.op = "create"
    /\ last.reason \in ClientReasons
    /\ \A o \in bookings : o.userId # ProposedClient.userId
    /\ \E o \in OnDateElsewhere : SharesPhoneOnly(o) /\ Clashes(o)

====
